---- MODULE Spec2Model ----
(***************************************************************************)
(* Precession timing-residual model (notebooks/precession_model.py):       *)
(* the residual function RedNoise_delay and the signal-block builder       *)
(* RedNoise_delay_block.                                                   *)
(*                                                                         *)
(* Numbers are numpy float64 values.  They are modelled as IEEE-754        *)
(* binary64 values with round-to-nearest-even arithmetic: a finite value   *)
(* is s * m * 2^e with m a natural number held in limbs of 15 bits (TLC's  *)
(* integers are 32 bits wide), least significant limb first.               *)
(***************************************************************************)
EXTENDS Integers, Sequences, FiniteSets, TLC

----------------------------------------------------------------------------
(* Natural numbers of any size: sequences of limbs, least significant      *)
(* first, no leading zero limb; <<>> is zero.                              *)

LimbBits == 15
Base == 2^LimbBits

Max(x, y) == IF x >= y THEN x ELSE y
Min(x, y) == IF x <= y THEN x ELSE y

RECURSIVE BTrim(_)
BTrim(a) ==
    IF a = <<>> THEN a
    ELSE IF a[Len(a)] = 0 THEN BTrim(SubSeq(a, 1, Len(a) - 1)) ELSE a

RECURSIVE BAddC(_, _, _)
BAddC(a, b, c) ==
    IF a = <<>> /\ b = <<>> THEN (IF c = 0 THEN <<>> ELSE <<c>>)
    ELSE LET x == IF a = <<>> THEN 0 ELSE Head(a)
             y == IF b = <<>> THEN 0 ELSE Head(b)
             t == x + y + c
         IN  <<t % Base>> \o BAddC(IF a = <<>> THEN a ELSE Tail(a),
                                   IF b = <<>> THEN b ELSE Tail(b),
                                   t \div Base)

BAdd(a, b) == BAddC(a, b, 0)

RECURSIVE BSubC(_, _, _)
BSubC(a, b, c) ==
    IF a = <<>> THEN <<>>
    ELSE LET y == IF b = <<>> THEN 0 ELSE Head(b)
             t == Head(a) - y - c
         IN  <<(t + Base) % Base>>
                 \o BSubC(Tail(a), IF b = <<>> THEN b ELSE Tail(b),
                          IF t < 0 THEN 1 ELSE 0)

\* a - b for a >= b
BSub(a, b) == BTrim(BSubC(a, b, 0))

RECURSIVE BCmpEq(_, _)
BCmpEq(a, b) ==
    IF a = <<>> THEN 0
    ELSE LET n == Len(a)
         IN  IF a[n] # b[n] THEN (IF a[n] < b[n] THEN -1 ELSE 1)
             ELSE BCmpEq(SubSeq(a, 1, n - 1), SubSeq(b, 1, n - 1))

\* -1, 0 or 1 as a < b, a = b, a > b
BCmp(a, b) ==
    IF Len(a) # Len(b) THEN (IF Len(a) < Len(b) THEN -1 ELSE 1)
    ELSE BCmpEq(a, b)

RECURSIVE BMulS(_, _, _)
BMulS(a, d, c) ==
    IF a = <<>> THEN (IF c = 0 THEN <<>> ELSE <<c>>)
    ELSE LET t == Head(a) * d + c
         IN  <<t % Base>> \o BMulS(Tail(a), d, t \div Base)

RECURSIVE BMulR(_, _)
BMulR(a, b) ==
    IF a = <<>> THEN <<>>
    ELSE BAdd(BMulS(b, Head(a), 0), <<0>> \o BMulR(Tail(a), b))

BMul(a, b) == BTrim(BMulR(a, b))

RECURSIVE BRemS(_, _)
BRemS(a, d) ==
    IF a = <<>> THEN 0 ELSE (BRemS(Tail(a), d) * Base + Head(a)) % d

RECURSIVE BQuotS(_, _)
BQuotS(a, d) ==
    IF a = <<>> THEN <<>>
    ELSE <<(BRemS(Tail(a), d) * Base + Head(a)) \div d>> \o BQuotS(Tail(a), d)

Zeros(n) == [i \in 1..n |-> 0]

\* a * 2^n
BShl(a, n) ==
    IF a = <<>> THEN a
    ELSE Zeros(n \div LimbBits) \o BMulS(a, 2^(n % LimbBits), 0)

\* floor(a / 2^n)
BShr(a, n) ==
    IF n \div LimbBits >= Len(a) THEN <<>>
    ELSE BTrim(BQuotS(SubSeq(a, n \div LimbBits + 1, Len(a)), 2^(n % LimbBits)))

BitLen(x) == CHOOSE n \in 1..LimbBits : 2^(n - 1) <= x /\ x < 2^n

BBitLen(a) ==
    IF a = <<>> THEN 0 ELSE LimbBits * (Len(a) - 1) + BitLen(a[Len(a)])

BOdd(a) == a # <<>> /\ a[1] % 2 = 1

----------------------------------------------------------------------------
(* IEEE-754 binary64.  A value is a record [cls, s, m, e]: cls "fin" is    *)
(* s * m * 2^e with m < 2^53 (m has 53 bits unless the value is zero or    *)
(* subnormal); cls "inf" is s * infinity; cls "nan" is NaN.  Zero is kept  *)
(* unsigned: -0.0 == 0.0 in every comparison the program makes.            *)

Precision == 53
MaxExp == 1024
MinExp == -1074

Zero == [cls |-> "fin", s |-> 1, m |-> <<>>, e |-> 0]
NaN == [cls |-> "nan", s |-> 1, m |-> <<>>, e |-> 0]
Inf(s) == [cls |-> "inf", s |-> s, m |-> <<>>, e |-> 0]

IsNaN(x) == x.cls = "nan"
IsInf(x) == x.cls = "inf"
IsFinite(x) == x.cls = "fin"
IsZero(x) == x.cls = "fin" /\ x.m = <<>>

\* s * M * 2^E with M of at most 53 bits, or M = 2^53, in canonical form
Canon(s, M, E) ==
    IF M = <<>> THEN Zero
    ELSE LET L == BBitLen(M)
             k == Max(0, Min(Precision - L, E - MinExp))
         IN  IF L + E > MaxExp THEN Inf(s)
             ELSE IF L > Precision
                  THEN [cls |-> "fin", s |-> s, m |-> BShr(M, 1), e |-> E + 1]
             ELSE [cls |-> "fin", s |-> s, m |-> BShl(M, k), e |-> E - k]

\* the binary64 value nearest to s * M * 2^E, ties to even
Round(s, M, E) ==
    IF M = <<>> THEN Zero
    ELSE LET L == BBitLen(M)
             n == Max(L - Precision, MinExp - E)
         IN  IF n <= 0 THEN Canon(s, M, E)
             ELSE LET q == BShr(M, n)
                      r == BSub(M, BShl(q, n))
                      c == BCmp(r, BShl(<<1>>, n - 1))
                      up == c = 1 \/ (c = 0 /\ BOdd(q))
                  IN  Canon(s, IF up THEN BAdd(q, <<1>>) ELSE q, E + n)

FNeg(x) == IF x.cls = "nan" \/ IsZero(x) THEN x ELSE [x EXCEPT !.s = -x.s]

FMul(x, y) ==
    IF IsNaN(x) \/ IsNaN(y) THEN NaN
    ELSE IF IsInf(x) \/ IsInf(y)
         THEN (IF IsZero(x) \/ IsZero(y) THEN NaN ELSE Inf(x.s * y.s))
    ELSE Round(x.s * y.s, BMul(x.m, y.m), x.e + y.e)

\* beyond this distance in exponent the smaller operand only decides the
\* rounding direction
AlignCap == 3 * Precision

FAddFin(x, y) ==
    IF IsZero(x) THEN y
    ELSE IF IsZero(y) THEN x
    ELSE LET hi == IF x.e >= y.e THEN x ELSE y
             lo == IF x.e >= y.e THEN y ELSE x
             d == Min(hi.e - lo.e, AlignCap)
             E == hi.e - d
             A == BShl(hi.m, d)
             B == lo.m
         IN  IF hi.s = lo.s THEN Round(hi.s, BAdd(A, B), E)
             ELSE IF BCmp(A, B) >= 0 THEN Round(hi.s, BSub(A, B), E)
             ELSE Round(lo.s, BSub(B, A), E)

FAdd(x, y) ==
    IF IsNaN(x) \/ IsNaN(y) THEN NaN
    ELSE IF IsInf(x) /\ IsInf(y) THEN (IF x.s = y.s THEN x ELSE NaN)
    ELSE IF IsInf(x) THEN x
    ELSE IF IsInf(y) THEN y
    ELSE FAddFin(x, y)

FSub(x, y) == FAdd(x, FNeg(y))

\* LimbBits steps of restoring division of r * 2^LimbBits by d, for r < d:
\* <<quotient digit, remainder>>
RECURSIVE DivDigit(_, _, _, _)
DivDigit(r, d, k, acc) ==
    IF k = 0 \/ acc < 0 THEN <<acc, r>>
    ELSE LET r2 == BShl(r, 1)
         IN  IF BCmp(r2, d) >= 0
             THEN DivDigit(BSub(r2, d), d, k - 1, 2 * acc + 1)
             ELSE DivDigit(r2, d, k - 1, 2 * acc)

\* n quotient limbs of r / d, for r < d: <<limbs, remainder>>
RECURSIVE DivLimbs(_, _, _)
DivLimbs(r, d, n) ==
    IF n = 0 THEN <<<<>>, r>>
    ELSE LET dg == DivDigit(r, d, LimbBits, 0)
         IN  IF dg[1] >= 0
             THEN LET rest == DivLimbs(dg[2], d, n - 1)
                  IN  <<rest[1] \o <<dg[1]>>, rest[2]>>
             ELSE <<<<>>, r>>

DivLimbCount == 4

FDivFin(x, y) ==
    LET L == BBitLen(y.m) - BBitLen(x.m)
        n == IF L > 0 THEN BShl(x.m, L) ELSE x.m
        d == IF L < 0 THEN BShl(y.m, -L) ELSE y.m
        ge == BCmp(n, d) >= 0
        ql == DivLimbs(IF ge THEN BSub(n, d) ELSE n, d, DivLimbCount)
        q == BTrim(ql[1] \o <<IF ge THEN 1 ELSE 0>>)
        sticky == IF ql[2] = <<>> THEN <<>> ELSE <<1>>
    IN  Round(x.s * y.s, BAdd(BShl(q, 1), sticky),
              x.e - y.e - L - DivLimbCount * LimbBits - 1)

\* numpy's float64 division: x/0 is inf (nan for 0/0), with a warning only
FDiv(x, y) ==
    IF IsNaN(x) \/ IsNaN(y) THEN NaN
    ELSE IF IsInf(x) THEN (IF IsInf(y) THEN NaN ELSE Inf(x.s * y.s))
    ELSE IF IsInf(y) THEN Zero
    ELSE IF IsZero(y) THEN (IF IsZero(x) THEN NaN ELSE Inf(x.s))
    ELSE IF IsZero(x) THEN Zero
    ELSE FDivFin(x, y)

\* the float64 of an integer of magnitude below 2^30
FromInt(n) ==
    IF n = 0 THEN Zero
    ELSE LET a == IF n < 0 THEN -n ELSE n
         IN  Canon(IF n < 0 THEN -1 ELSE 1, BTrim(<<a % Base, a \div Base>>), 0)

\* x < y for finite x, y
FLess(x, y) == LET d == FSub(x, y) IN d.s = -1 /\ ~IsZero(d)

----------------------------------------------------------------------------
(* numpy: np.pi, np.sin and the elementwise array operations of the       *)
(* residual expression.  An array is a sequence of float64 values.        *)

\* np.pi = 3.141592653589793
NpPi == [cls |-> "fin", s |-> 1, m |-> <<11544, 10376, 2029, 201>>, e |-> -51]

Two == FromInt(2)

\* np.sin at the positive float64 arguments the epochs and periods below
\* produce: <<argument m, argument e, sign, result m, result e>>, each
\* result the float64 nearest to the sine of the argument.
\*   sin(1.5707963267948966) = 1.0
\*   sin(3.141592653589793) = 1.2246467991473532e-16
\*   sin(5.235987755982988) = -0.866025403784439
\*   sin(6.283185307179586) = -2.4492935982947064e-16
\*   sin(10.471975511965976) = -0.8660254037844378
\*   sin(12.566370614359172) = -4.898587196589413e-16
\*   sin(20.94395102393195) = 0.8660254037844403
\*   sin(25.132741228718345) = -9.797174393178826e-16
\*   sin(41.8879020478639) = -0.8660254037844355
SinTable == <<
    <<<<11544, 10376, 2029, 201>>, -52, 1, <<0, 0, 0, 128>>, -52>>,
    <<<<11544, 10376, 2029, 201>>, -51, 1, <<23559, 26152, 6296, 141>>, -105>>,
    <<<<20542, 3185, 18075, 167>>, -50, -1, <<19630, 20656, 23019, 221>>, -53>>,
    <<<<11544, 10376, 2029, 201>>, -50, -1, <<23559, 26152, 6296, 141>>, -104>>,
    <<<<20542, 3185, 18075, 167>>, -49, -1, <<19619, 20656, 23019, 221>>, -53>>,
    <<<<11544, 10376, 2029, 201>>, -49, -1, <<23559, 26152, 6296, 141>>, -103>>,
    <<<<20542, 3185, 18075, 167>>, -48, 1, <<19641, 20656, 23019, 221>>, -53>>,
    <<<<11544, 10376, 2029, 201>>, -48, -1, <<23559, 26152, 6296, 141>>, -102>>,
    <<<<20542, 3185, 18075, 167>>, -47, -1, <<19598, 20656, 23019, 221>>, -53>> >>

SinRow(v) ==
    CHOOSE i \in 1..Len(SinTable) : SinTable[i][1] = v.m /\ SinTable[i][2] = v.e

\* np.sin of a scalar: sin(0) = 0, sin(-v) = -sin(v), sin(+-inf) = nan
\* (with a warning only)
FSin(v) ==
    IF IsNaN(v) \/ IsInf(v) THEN NaN
    ELSE IF IsZero(v) THEN Zero
    ELSE LET row == SinTable[SinRow(v)]
         IN  [cls |-> "fin", s |-> v.s * row[3], m |-> row[4], e |-> row[5]]

NpSin(arr) == [i \in 1..Len(arr) |-> FSin(arr[i])]

\* arr - c, c * arr, c + arr for a scalar c; u - v for arrays of one length
ArrSubScalar(arr, c) == [i \in 1..Len(arr) |-> FSub(arr[i], c)]
ScalarMulArr(c, arr) == [i \in 1..Len(arr) |-> FMul(c, arr[i])]
ScalarAddArr(c, arr) == [i \in 1..Len(arr) |-> FAdd(c, arr[i])]
ArrSubArr(u, v) == [i \in 1..Len(u) |-> FSub(u[i], v[i])]

----------------------------------------------------------------------------
(* RedNoise_delay(toas, t0, P, a1, a2, k)                                  *)
(*                                                                         *)
(* A period P is [v, py]: its value, and whether it is a Python scalar     *)
(* (the division of line 36 then raises ZeroDivisionError at zero) or a    *)
(* numpy float64, as the values a sampler hands over are (the division    *)
(* then gives inf, with a warning only).                                   *)

\* a variant of line 36 with the factor 2 left out: Wp = np.pi/P
Line36_pi(P) ==
    IF P.py /\ IsZero(P.v)
    THEN [raised |-> TRUE, exc |-> "ZeroDivisionError", Wp |-> Zero]
    ELSE [raised |-> FALSE, exc |-> "", Wp |-> FDiv(NpPi, P.v)]

\* line 36: Wp = 2*np.pi/P
Line36(P) ==
    IF P.py /\ IsZero(P.v)
    THEN [raised |-> TRUE, exc |-> "ZeroDivisionError", Wp |-> Zero]
    ELSE [raised |-> FALSE, exc |-> "", Wp |-> FDiv(FMul(Two, NpPi), P.v)]

\* variants of line 43:
\*   the second harmonic added instead of subtracted
Line43_plus(toas, t0, Wp, a1, a2, k) ==
    LET first == ScalarMulArr(a1, NpSin(ScalarMulArr(Wp, ArrSubScalar(toas, t0))))
        second == ScalarMulArr(a2,
                     NpSin(ScalarMulArr(FMul(Two, Wp), ArrSubScalar(toas, t0))))
    IN  [i \in 1..Len(toas) |-> FAdd(ScalarAddArr(k, first)[i], second[i])]

\*   time counted from the first epoch of the array: toas-toas[0]
Line43_first_epoch(toas, t0, Wp, a1, a2, k) ==
    LET dt == [i \in 1..Len(toas) |-> FSub(toas[i], toas[1])]
        first == ScalarMulArr(a1, NpSin(ScalarMulArr(Wp, dt)))
        second == ScalarMulArr(a2, NpSin(ScalarMulArr(FMul(Two, Wp), dt)))
    IN  ArrSubArr(ScalarAddArr(k, first), second)

\*   the reference epoch left out: Wp*toas
Line43_no_t0(toas, t0, Wp, a1, a2, k) ==
    LET first == ScalarMulArr(a1, NpSin(ScalarMulArr(Wp, toas)))
        second == ScalarMulArr(a2, NpSin(ScalarMulArr(FMul(Two, Wp), toas)))
    IN  ArrSubArr(ScalarAddArr(k, first), second)

\*   the offset left out: a1*np.sin(...) - a2*np.sin(...)
Line43_no_offset(toas, t0, Wp, a1, a2, k) ==
    LET first == ScalarMulArr(a1, NpSin(ScalarMulArr(Wp, ArrSubScalar(toas, t0))))
        second == ScalarMulArr(a2,
                     NpSin(ScalarMulArr(FMul(Two, Wp), ArrSubScalar(toas, t0))))
    IN  ArrSubArr(first, second)

\* line 43: res = k + a1*np.sin(Wp*(toas-t0)) - a2*np.sin(2*Wp*(toas-t0))
Line43(toas, t0, Wp, a1, a2, k) ==
    LET first == ScalarMulArr(a1, NpSin(ScalarMulArr(Wp, ArrSubScalar(toas, t0))))
        second == ScalarMulArr(a2,
                     NpSin(ScalarMulArr(FMul(Two, Wp), ArrSubScalar(toas, t0))))
    IN  ArrSubArr(ScalarAddArr(k, first), second)

\* a variant of line 43 working in place: toas -= t0
ToasAfterLine43_in_place(toas, t0) == ArrSubScalar(toas, t0)

\* line 43 leaves the array it was given as it is: toas-t0 is a new array
ToasAfterLine43(toas, t0) == toas

\* the whole function: what a call returns or raises
RedNoise_delay(toas, t0, P, a1, a2, k) ==
    LET w == Line36(P)
    IN  IF w.raised THEN [raised |-> TRUE, exc |-> w.exc, val |-> <<>>]
        ELSE [raised |-> FALSE, exc |-> "",
              val |-> Line43(toas, t0, w.Wp, a1, a2, k)]

----------------------------------------------------------------------------
(* RedNoise_delay_block                                                    *)

\* the defaults of lines 48-53
t0_lower == [cls |-> "fin", s |-> 1, m |-> <<0, 16384, 2971, 137>>, e |-> -20]
t0_upper == [cls |-> "fin", s |-> 1, m |-> <<0, 24576, 24727, 187>>, e |-> -20]
P_lower == [cls |-> "fin", s |-> 1, m |-> <<0, 0, 32560, 205>>, e |-> -24]
P_upper == [cls |-> "fin", s |-> 1, m |-> <<0, 0, 24446, 128>>, e |-> -20]
a1_lower == [cls |-> "fin", s |-> 1, m |-> <<28045, 16747, 7134, 134>>, e |-> -72]
a1_upper == [cls |-> "fin", s |-> 1, m |-> <<10748, 9699, 2359, 131>>, e |-> -62]
a2_lower == a1_lower
a2_upper == a1_upper
k_lower == [cls |-> "fin", s |-> -1, m |-> <<10748, 9699, 2359, 131>>, e |-> -62]
k_upper == [cls |-> "fin", s |-> 1, m |-> <<10748, 9699, 2359, 131>>, e |-> -62]

DefaultBounds ==
    [t0 |-> <<t0_lower, t0_upper>>, P |-> <<P_lower, P_upper>>,
     a1 |-> <<a1_lower, a1_upper>>, a2 |-> <<a2_lower, a2_upper>>,
     k |-> <<k_lower, k_upper>>]

DefaultName == "RedNoise"

\* the arguments of RedNoise_delay a block binds
Args == {"t0", "P", "a1", "a2", "k"}

\* parameter.Uniform(lower, upper)(pname): a named prior holding the bounds
\* as given
Uniform(lower, upper, pname) ==
    [name |-> pname, prior |-> "Uniform", pmin |-> lower, pmax |-> upper]

\* a variant of line 75 with the suffix of line 72: '{}_a1'.format(name)
a2_name_a1(name) == name \o "_a1"

\* '{}_t0'.format(name), ...
t0_name(name) == name \o "_t0"
P_name(name) == name \o "_P"
a1_name(name) == name \o "_a1"
a2_name(name) == name \o "_a2"
k_name(name) == name \o "_k"

\* a variant of lines 83-85 with the two amplitudes exchanged
Bind_swapped(t0_RedNoise, P_RedNoise, a1_RedNoise, a2_RedNoise, k_RedNoise) ==
    [t0 |-> t0_RedNoise, P |-> P_RedNoise, a1 |-> a2_RedNoise,
     a2 |-> a1_RedNoise, k |-> k_RedNoise]

\* lines 83-85: RedNoise_delay with t0, P, a1, a2, k bound to the priors,
\* toas left open
Bind(t0_RedNoise, P_RedNoise, a1_RedNoise, a2_RedNoise, k_RedNoise) ==
    [t0 |-> t0_RedNoise, P |-> P_RedNoise, a1 |-> a1_RedNoise,
     a2 |-> a2_RedNoise, k |-> k_RedNoise]

\* a variant of the builder that refuses a lower bound not below its upper
\* bound
RedNoise_delay_block_checked(b, name) ==
    [raised |-> \E a \in {"t0", "P", "a1", "a2", "k"} : ~FLess(b[a][1], b[a][2]),
     name |-> name,
     fn |-> "RedNoise_delay",
     kwargs |-> Bind(Uniform(b.t0[1], b.t0[2], t0_name(name)),
                     Uniform(b.P[1], b.P[2], P_name(name)),
                     Uniform(b.a1[1], b.a1[2], a1_name(name)),
                     Uniform(b.a2[1], b.a2[2], a2_name(name)),
                     Uniform(b.k[1], b.k[2], k_name(name)))]

\* the block: Deterministic(RedNoise_d, name=name).  No line of the builder
\* compares a lower with an upper bound or raises.
RedNoise_delay_block(b, name) ==
    [raised |-> FALSE,
     name |-> name,
     fn |-> "RedNoise_delay",
     kwargs |-> Bind(Uniform(b.t0[1], b.t0[2], t0_name(name)),
                     Uniform(b.P[1], b.P[2], P_name(name)),
                     Uniform(b.a1[1], b.a1[2], a1_name(name)),
                     Uniform(b.a2[1], b.a2[2], a2_name(name)),
                     Uniform(b.k[1], b.k[2], k_name(name)))]

\* the names of the parameters a block introduces
ParamNames(blk) == {blk.kwargs[a].name : a \in Args}

\* the framework evaluating a block at concrete values, a map from
\* parameter names to numbers: each bound argument takes the value of the
\* parameter bound to it
Resolve(blk, vals) == [a \in Args |-> vals[blk.kwargs[a].name]]

----------------------------------------------------------------------------
(* The state: the epoch arrays the callers hold, the calls of              *)
(* RedNoise_delay in progress (one frame per caller: its arguments, its    *)
(* locals Wp and res, what it returned or raised), and the blocks built.   *)

VARIABLES arrays, loaded, frame, blocks

vars == <<arrays, loaded, frame, blocks>>

Callers == {1, 2}

Np(n) == [v |-> FromInt(n), py |-> FALSE]
Py(n) == [v |-> FromInt(n), py |-> TRUE]

IdleFrame ==
    [pc |-> "idle", toas |-> 0, t0 |-> Zero, P |-> Np(0), a1 |-> Zero,
     a2 |-> Zero, k |-> Zero, Wp |-> Zero, res |-> <<>>, ret |-> <<>>,
     exc |-> "", blk |-> "", vals |-> <<>>]

\* the inputs
MaxLen == 2
MaxBlocks == 2
MaxNameLen == 3

EpochValues == {FromInt(0), FromInt(5), FromInt(10)}

Toas(n) == UNION {[1..len -> EpochValues] : len \in 0..n}

DelayDomain ==
    [t0 |-> {FromInt(0), FromInt(5)},
     P |-> {Np(0), Py(0), Np(3), Np(5), Np(10), Np(-10)},
     a1 |-> {FromInt(0), FromInt(3)},
     a2 |-> {FromInt(0), FromInt(1)},
     k |-> {FromInt(0), FromInt(-1)}]

ConcDomain ==
    [t0 |-> {FromInt(5)},
     P |-> {Np(5), Np(0)},
     a1 |-> {FromInt(1)},
     a2 |-> {FromInt(0), FromInt(1)},
     k |-> {FromInt(5)}]

ConcToas == {<<FromInt(0), FromInt(5)>>, <<FromInt(10)>>}

EvalDomain ==
    [t0 |-> {FromInt(0)},
     P |-> {Np(10), Np(3)},
     a1 |-> {FromInt(0), FromInt(1)},
     a2 |-> {FromInt(0), FromInt(3)},
     k |-> {FromInt(5)}]

BlockToas == {<<FromInt(0), FromInt(5), FromInt(10)>>, <<FromInt(5)>>}

Pair(lo, hi) == <<FromInt(lo), FromInt(hi)>>

\* the defaults; the bounds t0 in (0, 1), P in (10, 10), a1, a2 in (0, 0),
\* k in (5, 5); bounds with lower above upper
BlockBounds ==
    {DefaultBounds,
     [t0 |-> Pair(0, 1), P |-> Pair(10, 10), a1 |-> Pair(0, 0),
      a2 |-> Pair(0, 0), k |-> Pair(5, 5)],
     [t0 |-> Pair(1, 0), P |-> Pair(10, 3), a1 |-> Pair(0, 0),
      a2 |-> Pair(3, 1), k |-> Pair(5, -1)]}

BlockNames == {"X", DefaultName}

Alphabet == {"A", "_", "t0"}

RECURSIVE Names(_)
Names(n) ==
    IF n = 0 THEN {""}
    ELSE Names(n - 1) \cup {s \o c : s \in Names(n - 1), c \in Alphabet}

----------------------------------------------------------------------------
(* The operations *)

\* a caller calls RedNoise_delay(toas, t0, P, a1, a2, k) on one of the arrays
Call(c, ref, t0, P, a1, a2, k, blk, vals) ==
    /\ frame[c].pc = "idle"
    /\ frame' = [frame EXCEPT ![c] =
                    [IdleFrame EXCEPT !.pc = "L36", !.toas = ref, !.t0 = t0,
                                      !.P = P, !.a1 = a1, !.a2 = a2, !.k = k,
                                      !.blk = blk, !.vals = vals]]
    /\ UNCHANGED <<arrays, loaded, blocks>>

DirectCall(c, dom) ==
    \E ref \in DOMAIN arrays, t0 \in dom.t0, P \in dom.P, a1 \in dom.a1,
       a2 \in dom.a2, k \in dom.k :
        Call(c, ref, t0, P, a1, a2, k, "", <<>>)

\* the values a sampler draws for the five parameters of the block `name`,
\* keyed by the parameter names "{name}_{param}"
Sample(name, t0, P, a1, a2, k) ==
    [n \in {name \o "_t0", name \o "_P", name \o "_a1", name \o "_a2",
            name \o "_k"} |->
        CASE n = name \o "_t0" -> t0
          [] n = name \o "_P" -> P
          [] n = name \o "_a1" -> a1
          [] n = name \o "_a2" -> a2
          [] n = name \o "_k" -> k]

\* the framework evaluates a block at sampled values on an epoch array: it
\* calls the bound function with each argument resolved from the values
EvalBlock(c, dom) ==
    \E rec \in blocks, ref \in DOMAIN arrays, t0 \in dom.t0, P \in dom.P,
       a1 \in dom.a1, a2 \in dom.a2, k \in dom.k :
        LET vals == Sample(rec.name, t0, P, a1, a2, k)
            args == Resolve(rec.block, vals)
        IN  /\ ~rec.block.raised
            /\ Call(c, ref, args.t0, args.P, args.a1, args.a2, args.k,
                    rec.name, vals)

Step36(c) ==
    /\ frame[c].pc = "L36"
    /\ LET w == Line36(frame[c].P)
       IN  frame' = [frame EXCEPT ![c] =
                IF w.raised THEN [@ EXCEPT !.pc = "raised", !.exc = w.exc]
                ELSE [@ EXCEPT !.pc = "L43", !.Wp = w.Wp]]
    /\ UNCHANGED <<arrays, loaded, blocks>>

Step43(c) ==
    /\ frame[c].pc = "L43"
    /\ LET f == frame[c]
       IN  /\ frame' = [frame EXCEPT ![c] =
                  [@ EXCEPT !.pc = "L45",
                            !.res = Line43(arrays[f.toas], f.t0, f.Wp,
                                           f.a1, f.a2, f.k)]]
           /\ arrays' = [arrays EXCEPT ![f.toas] = ToasAfterLine43(@, f.t0)]
    /\ UNCHANGED <<loaded, blocks>>

Step45(c) ==
    /\ frame[c].pc = "L45"
    /\ frame' = [frame EXCEPT ![c] =
                    [@ EXCEPT !.pc = "returned", !.ret = frame[c].res]]
    /\ UNCHANGED <<arrays, loaded, blocks>>

\* the caller has taken what the call returned or raised
Release(c) ==
    /\ frame[c].pc \in {"returned", "raised"}
    /\ frame' = [frame EXCEPT ![c] = IdleFrame]
    /\ UNCHANGED <<arrays, loaded, blocks>>

\* RedNoise_delay_block(..., name=name) is called and its block kept
Build(name, b) ==
    /\ Cardinality(blocks) < MaxBlocks
    /\ blocks' = blocks \cup
          {[given |-> b, name |-> name, block |-> RedNoise_delay_block(b, name)]}
    /\ blocks' # blocks
    /\ UNCHANGED <<arrays, loaded, frame>>

----------------------------------------------------------------------------
(* The specifications *)

InitWith(ids, contents) ==
    /\ arrays \in [ids -> contents]
    /\ loaded = arrays
    /\ frame = [c \in Callers |-> IdleFrame]
    /\ blocks = {}

\* one caller calling the residual function on any epoch array
Init == InitWith({1}, Toas(MaxLen))

Next ==
    \/ DirectCall(1, DelayDomain)
    \/ Step36(1)
    \/ Step43(1)
    \/ Step45(1)
    \/ Release(1)

Spec == Init /\ [][Next]_vars

\* callers calling the residual function concurrently on shared arrays
InitConc == InitWith({1, 2}, ConcToas)

NextConc ==
    \E c \in Callers :
        \/ DirectCall(c, ConcDomain)
        \/ Step36(c)
        \/ Step43(c)
        \/ Step45(c)
        \/ Release(c)

SpecConc == InitConc /\ [][NextConc]_vars

\* blocks are built and evaluated
InitBlock == InitWith({1}, BlockToas)

NextBlock ==
    \/ \E name \in BlockNames, b \in BlockBounds : Build(name, b)
    \/ EvalBlock(1, EvalDomain)
    \/ Step36(1)
    \/ Step43(1)
    \/ Step45(1)
    \/ Release(1)

SpecBlock == InitBlock /\ [][NextBlock]_vars

\* blocks are built under any names
InitNames == InitWith({1}, {<<>>})

NextNames == \E name \in Names(MaxNameLen) : Build(name, DefaultBounds)

SpecNames == InitNames /\ [][NextNames]_vars

----------------------------------------------------------------------------
(* The properties *)

Returned(c) == frame[c].pc = "returned"

\* the epoch series a call was given
Epochs(c) == loaded[frame[c].toas]

PeriodNonZero(c) == ~IsZero(frame[c].P.v)

\* the residual at one epoch t as the formula states it, with Wp = 2*pi/P:
\* k + a1*sin(Wp*(t - t0)) - a2*sin(2*Wp*(t - t0))
AngularFrequency(P) == FDiv(FMul(FromInt(2), NpPi), P)

Residual(t, t0, Wp, a1, a2, k) ==
    FSub(FAdd(k, FMul(a1, FSin(FMul(Wp, FSub(t, t0))))),
         FMul(a2, FSin(FMul(FMul(FromInt(2), Wp), FSub(t, t0)))))

\* C1: for a period other than zero, every element of what RedNoise_delay
\* returns is k + a1*sin(Wp*(t - t0)) - a2*sin(2*Wp*(t - t0)) at its epoch t,
\* with Wp = 2*pi/P derived from the period given.
C1_Formula ==
    \A c \in Callers :
        Returned(c) /\ PeriodNonZero(c) =>
            LET f == frame[c]
                E == Epochs(c)
                Wp == AngularFrequency(f.P.v)
            IN  /\ Len(f.ret) = Len(E)
                /\ \A i \in 1..Len(E) :
                       f.ret[i] = Residual(E[i], f.t0, Wp, f.a1, f.a2, f.k)

\* a call with both amplitudes at work has returned a residual away from k
C1_Witness ==
    \E c \in Callers :
        /\ Returned(c) /\ PeriodNonZero(c)
        /\ ~IsZero(frame[c].a1) /\ ~IsZero(frame[c].a2)
        /\ \E i \in 1..Len(frame[c].ret) : frame[c].ret[i] # frame[c].k

\* C2: the result has one element per epoch, in the order of the epochs, and
\* the element at position i is what the function returns for the epoch
\* E[i] alone with the same parameters: no other epoch enters it.
C2_Formula ==
    \A c \in Callers :
        Returned(c) /\ PeriodNonZero(c) =>
            LET f == frame[c]
                E == Epochs(c)
            IN  /\ Len(f.ret) = Len(E)
                /\ \A i \in 1..Len(E) :
                       f.ret[i] = RedNoise_delay(<<E[i]>>, f.t0, f.P, f.a1,
                                                 f.a2, f.k).val[1]

\* a call on two different epochs has returned two different residuals
C2_Witness ==
    \E c \in Callers :
        /\ Returned(c) /\ PeriodNonZero(c)
        /\ Len(Epochs(c)) = 2
        /\ Epochs(c)[1] # Epochs(c)[2]
        /\ frame[c].ret[1] # frame[c].ret[2]

\* C3, as the claim states it: a call with P = 0 fails; it never returns.
C3_Claim ==
    \A c \in Callers : IsZero(frame[c].P.v) => ~Returned(c)

\* exact arithmetic on finite float64 values: s * m * 2^e with m of any size
ExMul(x, y) == [s |-> x.s * y.s, m |-> BMul(x.m, y.m), e |-> x.e + y.e]

ExAdd(x, y) ==
    LET e == Min(x.e, y.e)
        a == BShl(x.m, x.e - e)
        b == BShl(y.m, y.e - e)
    IN  IF x.s = y.s THEN [s |-> x.s, m |-> BAdd(a, b), e |-> e]
        ELSE IF BCmp(a, b) >= 0 THEN [s |-> x.s, m |-> BSub(a, b), e |-> e]
        ELSE [s |-> y.s, m |-> BSub(b, a), e |-> e]

ExAbs(x) == [s |-> 1, m |-> x.m, e |-> x.e]

ExSub(x, y) == ExAdd(x, [s |-> -y.s, m |-> y.m, e |-> y.e])

\* x <= y for x, y >= 0
ExLeq(x, y) ==
    LET e == Min(x.e, y.e)
    IN  BCmp(BShl(x.m, x.e - e), BShl(y.m, y.e - e)) <= 0

\* the epochs of a call that lie one period apart: E[j] = E[i] + P
OnePeriodApart(c) ==
    {p \in (1..Len(Epochs(c))) \X (1..Len(Epochs(c))) :
        Epochs(c)[p[2]] = FAdd(Epochs(c)[p[1]], frame[c].P.v)}

\* C6, as the claim states it: the residual at t + P equals the residual
\* at t.
C6_Claim ==
    \A c \in Callers :
        Returned(c) /\ PeriodNonZero(c) =>
            \A p \in OnePeriodApart(c) : frame[c].ret[p[2]] = frame[c].ret[p[1]]

\* the rounding tolerance at epoch t, times |P|:
\* 2^-46 * (|k|*|P| + (|a1| + |a2|) * (2*|P| + |t| + |t0|))
ToleranceTimesP(t, t0, P, a1, a2, k) ==
    ExMul([s |-> 1, m |-> <<1>>, e |-> -46],
          ExAdd(ExMul(ExAbs(k), ExAbs(P)),
                ExMul(ExAdd(ExAbs(a1), ExAbs(a2)),
                      ExAdd(ExAdd(ExAbs(P), ExAbs(P)),
                            ExAdd(ExAbs(t), ExAbs(t0))))))

\* C6, amended: the residual at t + P equals the residual at t up to the
\* rounding of float64 arithmetic:
\* |delay(t + P) - delay(t)| <= 2^-46 * (|k| + (|a1| + |a2|) * (2 + (|t| + |t0|)/|P|)).
C6_Formula ==
    \A c \in Callers :
        Returned(c) /\ PeriodNonZero(c) =>
            LET f == frame[c]
                E == Epochs(c)
            IN  \A p \in OnePeriodApart(c) :
                    ExLeq(ExMul(ExAbs(ExSub(f.ret[p[2]], f.ret[p[1]])),
                                ExAbs(f.P.v)),
                          ToleranceTimesP(E[p[1]], f.t0, f.P.v, f.a1, f.a2, f.k))

\* a call has returned residuals one period apart that differ
C6_Witness ==
    \E c \in Callers :
        /\ Returned(c) /\ PeriodNonZero(c)
        /\ \E p \in OnePeriodApart(c) : frame[c].ret[p[2]] # frame[c].ret[p[1]]

C4_Formula ==
    /\ \A r \in blocks :
           /\ ParamNames(r.block) =
                  {r.name \o "_t0", r.name \o "_P", r.name \o "_a1",
                   r.name \o "_a2", r.name \o "_k"}
           /\ Cardinality(ParamNames(r.block)) = 5
           /\ \A a \in Args :
                  r.block.kwargs[a].name = r.name \o "_" \o a
    /\ \A r1, r2 \in blocks :
           r1.name # r2.name =>
               ParamNames(r1.block) \cap ParamNames(r2.block) = {}

\* two blocks are built, the name of one the name of the other with a
\* parameter suffix added
C4_Witness ==
    \E r1, r2 \in blocks :
        /\ r1.name # ""
        /\ r2.name = r1.name \o "_t0"

\* the series [0, 5, 10] and the values of the example of C5
ExampleToas == <<FromInt(0), FromInt(5), FromInt(10)>>

ExampleValues(f) ==
    /\ f.t0 = FromInt(0) /\ f.P.v = FromInt(10)
    /\ f.a1 = FromInt(0) /\ f.a2 = FromInt(0) /\ f.k = FromInt(5)

\* C5: a block binds the five arguments t0, P, a1, a2, k to its five
\* parameters and nothing else; evaluating it at values for the parameters
\* over an epoch series gives what RedNoise_delay gives for that series with
\* N_t0 as t0, N_P as P, N_a1 as a1, N_a2 as a2 and N_k as k; at t0 = 0,
\* P = 10, a1 = 0, a2 = 0, k = 5 over [0, 5, 10] it gives [5, 5, 5].
C5_Formula ==
    /\ \A r \in blocks :
           ~r.block.raised =>
               r.block.fn = "RedNoise_delay" /\ DOMAIN r.block.kwargs = Args
    /\ \A c \in Callers :
           Returned(c) /\ frame[c].blk # "" =>
               LET f == frame[c]
                   N == f.blk
               IN  /\ f.ret = RedNoise_delay(Epochs(c), f.vals[N \o "_t0"],
                                             f.vals[N \o "_P"],
                                             f.vals[N \o "_a1"],
                                             f.vals[N \o "_a2"],
                                             f.vals[N \o "_k"]).val
                   /\ (Epochs(c) = ExampleToas
                          /\ f.vals[N \o "_t0"] = FromInt(0)
                          /\ f.vals[N \o "_P"].v = FromInt(10)
                          /\ f.vals[N \o "_a1"] = FromInt(0)
                          /\ f.vals[N \o "_a2"] = FromInt(0)
                          /\ f.vals[N \o "_k"] = FromInt(5)) =>
                              f.ret = <<FromInt(5), FromInt(5), FromInt(5)>>

\* a block has been evaluated at the example's values over [0, 5, 10]
C5_Witness ==
    \E c \in Callers :
        /\ Returned(c) /\ frame[c].blk # ""
        /\ Epochs(c) = ExampleToas
        /\ ExampleValues(frame[c])
        /\ frame[c].ret = <<FromInt(5), FromInt(5), FromInt(5)>>

\* lower >= upper for some pair of bounds given to the builder
Inverted(b) == \E a \in Args : ~FLess(b[a][1], b[a][2])

\* C9: the builder raises no error whatever bounds it is given, and hands
\* every bound unchanged to the uniform prior of its parameter, a lower
\* bound at or above its upper bound included.
C9_Formula ==
    \A r \in blocks :
        /\ ~r.block.raised
        /\ \A a \in Args :
               /\ r.block.kwargs[a].prior = "Uniform"
               /\ r.block.kwargs[a].pmin = r.given[a][1]
               /\ r.block.kwargs[a].pmax = r.given[a][2]

\* a block is built from bounds with a lower bound above its upper bound
C9_Witness ==
    \E r \in blocks :
        /\ \E a \in Args : FLess(r.given[a][2], r.given[a][1])
        /\ ~r.block.raised
        /\ \A a \in Args : r.block.kwargs[a].pmin = r.given[a][1]

SameInputs(c, d) ==
    /\ Epochs(c) = Epochs(d)
    /\ frame[c].t0 = frame[d].t0 /\ frame[c].P = frame[d].P
    /\ frame[c].a1 = frame[d].a1 /\ frame[c].a2 = frame[d].a2
    /\ frame[c].k = frame[d].k

\* C10: a call leaves the epoch arrays as they were; what it returns is
\* what its own inputs give, whatever calls came before it or run at the
\* same time, on the same array or another; two calls with the same inputs
\* return the same.
C10_Formula ==
    /\ arrays = loaded
    /\ \A c \in Callers :
           Returned(c) =>
               frame[c].ret = RedNoise_delay(Epochs(c), frame[c].t0,
                                  frame[c].P, frame[c].a1, frame[c].a2,
                                  frame[c].k).val
    /\ \A c, d \in Callers :
           Returned(c) /\ Returned(d) /\ SameInputs(c, d) =>
               frame[c].ret = frame[d].ret

\* two callers have called with the same inputs on one array, and both
\* have returned
C10_Witness ==
    \E c, d \in Callers :
        /\ c # d
        /\ Returned(c) /\ Returned(d)
        /\ frame[c].toas = frame[d].toas
        /\ SameInputs(c, d)
        /\ Len(frame[c].ret) = 2
        /\ frame[c].ret = frame[d].ret

====
